---- MODULE Spec2Model ----
(***************************************************************************)
(* Claim-approval prediction service (src/app.py): key normalisation,      *)
(* feature engineering, frame assembly, thresholded prediction and the     *)
(* /predict request handler, served by several worker threads.             *)
(*                                                                         *)
(* Numbers.  A cell [t |-> "num", v, d, e] denotes the real number         *)
(* v / (d + e*eps) with eps = 1e-9 (src/app.py:69) kept symbolic: JSON     *)
(* integers are v/1, and x / (y + eps) on integers x, y is v = x, d = y,   *)
(* e = 1.  Comparisons with integer constants are exact for the small      *)
(* integers used here.  log1p is kept as a tagged cell "log1p" holding     *)
(* its argument.  Probabilities and thresholds are integers in units of    *)
(* 10^-(Round6Digits+1), one digit finer than the rounding of responses.   *)
(***************************************************************************)
EXTENDS Integers, Sequences, FiniteSets, TLC

VARIABLES BASE_FEATURES, NUM_COLS, clip_stats, BEST_THR, clf, reqs, family

store == <<BASE_FEATURES, NUM_COLS, clip_stats, BEST_THR, clf>>
vars  == <<BASE_FEATURES, NUM_COLS, clip_stats, BEST_THR, clf, reqs, family>>

(***************************************************************************)
(* Bounds of the model                                                     *)
(***************************************************************************)
\* requests in flight at once (worker threads in use)
MaxReq == 2
\* records in a JSON array
MaxBatch == 2
\* largest magnitude of an amount in a record
MaxAmt == 3

(***************************************************************************)
(* Cells                                                                   *)
(***************************************************************************)
Num(n) == [t |-> "num", v |-> n, d |-> 1, e |-> 0]
Missing == [t |-> "nan", v |-> 0, d |-> 1, e |-> 0]
JNull == [t |-> "null", v |-> 0, d |-> 1, e |-> 0]
Str(k) == [t |-> "str", v |-> k, d |-> 1, e |-> 0]
NumStr(n) == [t |-> "numstr", v |-> n, d |-> 1, e |-> 0]
Absent == [t |-> "absent", v |-> 0, d |-> 1, e |-> 0]

IsNum(c) == c.t = "num"
IsNa(c) == c.t \in {"nan", "null"}
IsText(c) == c.t \in {"str", "numstr"}

Sgn(n) == IF n > 0 THEN 1 ELSE IF n < 0 THEN -1 ELSE 0

\* sign of (c - k) for a "num" or "log1p"-argument cell c and an integer k
Cmp(c, k) ==
  LET main == c.v - k * c.d
      num  == IF main # 0 THEN Sgn(main) ELSE Sgn(0 - k * c.e)
      den  == IF c.d # 0 THEN Sgn(c.d) ELSE Sgn(c.e)
  IN  num * den

(***************************************************************************)
(* Sequence helpers                                                        *)
(***************************************************************************)
Range(s) == { s[i] : i \in 1..Len(s) }

RECURSIVE SeqsUpTo(_, _)
SeqsUpTo(S, n) ==
  IF n = 0 THEN { <<>> }
  ELSE LET shorter == SeqsUpTo(S, n - 1)
       IN  shorter \cup { Append(s, x) : s \in { q \in shorter : Len(q) = n - 1 }, x \in S }

(***************************************************************************)
(* _norm_key: "_".join(str(k).strip().upper().split())                      *)
(* A raw key is a sequence of tokens, each a run of non-blank characters   *)
(* or one whitespace character.                                            *)
(***************************************************************************)
IsSpace(tok) == tok \in {" ", "\t"}

Upper(tok) ==
  CASE tok = "service_desc" -> "SERVICE_DESC"
    [] tok = "Service"      -> "SERVICE"
    [] tok = "desc"         -> "DESC"
    [] tok = "_"            -> "_"
    [] tok = "srv_desc"     -> "SRV_DESC"
    [] tok = "claimed"      -> "CLAIMED"
    [] tok = "Amount"       -> "AMOUNT"
    [] tok = "country"      -> "COUNTRY"
    [] OTHER                -> tok

\* str.split(): the words between runs of whitespace, leading and trailing
\* whitespace ignored; adjacent non-blank tokens belong to one word
RECURSIVE Split(_, _, _)
Split(toks, cur, inWord) ==
  IF toks = <<>> THEN IF inWord THEN <<cur>> ELSE <<>>
  ELSE IF IsSpace(Head(toks))
       THEN (IF inWord THEN <<cur>> ELSE <<>>) \o Split(Tail(toks), "", FALSE)
       ELSE Split(Tail(toks), cur \o Head(toks), TRUE)

RECURSIVE Join(_)
Join(words) ==
  IF words = <<>> THEN ""
  ELSE IF Len(words) = 1 THEN words[1]
  ELSE words[1] \o "_" \o Join(Tail(words))

RECURSIVE Strip(_)
Strip(toks) ==
  IF toks = <<>> THEN toks
  ELSE IF IsSpace(Head(toks)) THEN Strip(Tail(toks))
  ELSE IF IsSpace(toks[Len(toks)]) THEN Strip(SubSeq(toks, 1, Len(toks) - 1))
  ELSE toks

_norm_key(k) == Join(Split([i \in 1..Len(Strip(k)) |-> Upper(Strip(k)[i])], "", FALSE))

(***************************************************************************)
(* Python dicts (insertion ordered): sequences of <<key, value>> pairs     *)
(***************************************************************************)
Keys(dct) == { dct[i][1] : i \in 1..Len(dct) }
Get(dct, k) == LET i == CHOOSE j \in 1..Len(dct) : dct[j][1] = k IN dct[i][2]
DictSet(dct, k, val) ==
  IF k \in Keys(dct)
  THEN [i \in 1..Len(dct) |-> IF dct[i][1] = k THEN <<k, val>> ELSE dct[i]]
  ELSE Append(dct, <<k, val>>)
RECURSIVE DictPop(_, _)
DictPop(dct, k) ==
  IF dct = <<>> THEN <<>>
  ELSE IF Head(dct)[1] = k THEN Tail(dct)
  ELSE <<Head(dct)>> \o DictPop(Tail(dct), k)

(***************************************************************************)
(* Artifact store values derived at load time                              *)
(***************************************************************************)
KNOWN_AMT_COLS ==
  << "CLAIMED_AMOUNT", "SYSTEM_CLAIMED_AMOUNT", "PATIENT_SHARE",
     "BILLED_TAX", "ACCEPTED_TAX", "GROSS_CLAIMED_AMOUNT" >>

amt_for_feats ==
  SelectSeq(KNOWN_AMT_COLS, LAMBDA c : c \in Range(BASE_FEATURES) \/ c \in Range(NUM_COLS))

\* clip_stats and c in clip_stats  (None and {} are both falsy)
HasClipBound(c) == ~clip_stats.none /\ c \in Keys(clip_stats.map)
ClipBound(c) == Get(clip_stats.map, c)

(***************************************************************************)
(* Data frames: ordered column names and one function per row              *)
(***************************************************************************)
RECURSIVE FirstSeen(_, _)
FirstSeen(names, acc) ==
  IF names = <<>> THEN acc
  ELSE FirstSeen(Tail(names),
                 IF Head(names) \in Range(acc) THEN acc ELSE Append(acc, Head(names)))

RECURSIVE AllKeys(_)
AllKeys(dicts) ==
  IF dicts = <<>> THEN <<>>
  ELSE [i \in 1..Len(Head(dicts)) |-> Head(dicts)[i][1]] \o AllKeys(Tail(dicts))

\* a JSON null is None, which pandas holds as a missing value
FromJson(val) == IF val.t = "null" THEN Missing ELSE val

\* pd.DataFrame(list of dicts): columns in order of first appearance, a key
\* a record lacks is NaN in that row
DataFrame(dicts) ==
  LET cols == FirstSeen(AllKeys(dicts), <<>>)
  IN  [cols |-> cols,
       rows |-> [i \in 1..Len(dicts) |->
                  [c \in Range(cols) |->
                     IF c \in Keys(dicts[i]) THEN FromJson(Get(dicts[i], c)) ELSE Missing]]]

HasCol(df, c) == c \in Range(df.cols)

\* df[name] = series : overwrite in place, or append a new last column
SetCol(df, name, series) ==
  LET cols == IF HasCol(df, name) THEN df.cols ELSE Append(df.cols, name)
  IN  [cols |-> cols,
       rows |-> [i \in 1..Len(df.rows) |->
                  [c \in Range(cols) |-> IF c = name THEN series[i] ELSE df.rows[i][c]]]]

\* df[names].copy()
SelectCols(df, names) ==
  [cols |-> names,
   rows |-> [i \in 1..Len(df.rows) |-> [c \in Range(names) |-> df.rows[i][c]]]]

(***************************************************************************)
(* Element-wise numeric operations                                         *)
(***************************************************************************)
ClipLower(c, lo) == IF IsNum(c) /\ Cmp(c, lo) < 0 THEN Num(lo) ELSE c
ClipUpper(c, hi) == IF IsNum(c) /\ Cmp(c, hi) > 0 THEN Num(hi) ELSE c

\* Series.clip(lo, hi) and np.clip(x, lo, hi): NaN stays NaN
Clip(c, lo, hi) == ClipUpper(ClipLower(c, lo), hi)

\* x / (y + eps) on one row of two columns.  On an object column pandas
\* applies the operator to the non-missing cells only: a missing operand
\* gives NaN, a string operand raises TypeError.
DivEpsRaises(x, y) == IsText(y) \/ (IsText(x) /\ ~IsNa(y))
DivEps(x, y) ==
  IF IsNa(x) \/ IsNa(y) THEN Missing
  ELSE [t |-> "num", v |-> x.v, d |-> y.v, e |-> 1]

\* pd.to_numeric(series, errors="coerce")
ToNumeric(c) ==
  CASE c.t = "num"    -> c
    [] c.t = "numstr" -> Num(c.v)
    [] OTHER          -> Missing

Log1p(c) == IF IsNum(c) THEN [t |-> "log1p", v |-> c.v, d |-> c.d, e |-> c.e] ELSE Missing
NegFlag(c) == IF IsNum(c) /\ Cmp(c, 0) < 0 THEN Num(1) ELSE Num(0)
ZeroFlag(c) == IF IsNum(c) /\ Cmp(c, 0) = 0 THEN Num(1) ELSE Num(0)

(***************************************************************************)
(* _apply_engineering_to_frame                                             *)
(***************************************************************************)
Ok(df) == [err |-> "", df |-> df]
Raise(e) == [err |-> e, df |-> [cols |-> <<>>, rows |-> <<>>]]

\* one "if {num, den}.issubset(df.columns): df[name] = (num/(den+eps)).clip(0, hi)"
Ratio(res, name, numc, denc, hi) ==
  IF res.err # "" THEN res
  ELSE LET df == res.df IN
       IF ~(HasCol(df, numc) /\ HasCol(df, denc)) THEN res
       ELSE IF \E i \in 1..Len(df.rows) : DivEpsRaises(df.rows[i][numc], df.rows[i][denc])
            THEN Raise("TypeError")
            ELSE Ok(SetCol(df, name,
                    [i \in 1..Len(df.rows) |->
                       Clip(DivEps(df.rows[i][numc], df.rows[i][denc]), 0, hi)]))

ClipVal(c, vals) ==
  IF HasClipBound(c) THEN ClipUpper(vals, ClipBound(c)) ELSE vals
\* faulty variant: the lower clip at 0 before the logarithm is left out
LogVal_NoLowerClip(c, vals) ==
  IF HasClipBound(c) THEN Log1p(ClipUpper(vals, ClipBound(c))) ELSE Log1p(vals)

LogVal(c, vals) ==
  IF HasClipBound(c) THEN Log1p(Clip(vals, 0, ClipBound(c)))
  ELSE Log1p(ClipLower(vals, 0))

\* the body of "for c in amt_for_feats" for one column
AmountFeatures(df, c) ==
  IF ~HasCol(df, c) THEN df
  ELSE LET vals == [i \in 1..Len(df.rows) |-> ToNumeric(df.rows[i][c])]
           n    == Len(df.rows)
           d1   == SetCol(df, c \o "_CLIP",      [i \in 1..n |-> ClipVal(c, vals[i])])
           d2   == SetCol(d1, c \o "_LOG1P",     [i \in 1..n |-> LogVal(c, vals[i])])
           d3   == SetCol(d2, c \o "_NEG_FLAG",  [i \in 1..n |-> NegFlag(vals[i])])
       IN  SetCol(d3, c \o "_ZERO_FLAG", [i \in 1..n |-> ZeroFlag(vals[i])])

RECURSIVE AmountLoop(_, _)
AmountLoop(df, cs) ==
  IF cs = <<>> THEN df ELSE AmountLoop(AmountFeatures(df, Head(cs)), Tail(cs))

_apply_engineering_to_frame(df_like) ==
  LET r1 == Ratio(Ok(df_like), "PATIENT_SHARE_PCT", "PATIENT_SHARE", "CLAIMED_AMOUNT", 5)
      r2 == Ratio(r1, "TAX_ACCEPT_RATIO", "ACCEPTED_TAX", "BILLED_TAX", 2)
      r3 == Ratio(r2, "SYSTEM_TO_CLAIMED_RATIO", "SYSTEM_CLAIMED_AMOUNT", "CLAIMED_AMOUNT", 5)
  IN  IF r3.err # "" THEN r3 ELSE Ok(AmountLoop(r3.df, amt_for_feats))

(***************************************************************************)
(* _to_feature_frame                                                       *)
(***************************************************************************)
RECURSIVE NormKeys(_, _)
NormKeys(items, nr) ==
  IF items = <<>> THEN nr
  ELSE NormKeys(Tail(items), DictSet(nr, _norm_key(Head(items)[1]), Head(items)[2]))

\* faulty variant: the test "SRV_DESC" not in nr is left out
Alias_Overwrites(nr) ==
  IF "SERVICE_DESC" \in Keys(nr) /\ "SRV_DESC" \in Range(BASE_FEATURES)
  THEN DictSet(DictPop(nr, "SERVICE_DESC"), "SRV_DESC", Get(nr, "SERVICE_DESC"))
  ELSE nr

\* alias if training used SRV_DESC
Alias(nr) ==
  IF "SERVICE_DESC" \in Keys(nr) /\ "SRV_DESC" \in Range(BASE_FEATURES)
       /\ "SRV_DESC" \notin Keys(nr)
  THEN Append(DictPop(nr, "SERVICE_DESC"), <<"SRV_DESC", Get(nr, "SERVICE_DESC")>>)
  ELSE nr

NormRecord(r) == Alias(NormKeys(r, <<>>))

RECURSIVE FillMissing(_, _)
FillMissing(df, names) ==
  IF names = <<>> THEN df
  ELSE FillMissing(IF HasCol(df, Head(names)) THEN df
                   ELSE SetCol(df, Head(names), [i \in 1..Len(df.rows) |-> Missing]),
                   Tail(names))

EmptyFrame == [cols |-> <<>>, rows |-> <<>>]
Failed(e) == [err |-> e, normed |-> <<>>, enriched |-> EmptyFrame, X |-> EmptyFrame]

\* faulty variant: returns the enriched frame without selecting BASE_FEATURES
Assemble_NoSelection(enriched) == FillMissing(enriched, BASE_FEATURES)

\* enriched[BASE_FEATURES].copy()
Assemble(enriched) == SelectCols(FillMissing(enriched, BASE_FEATURES), BASE_FEATURES)

_to_feature_frame(payload) ==
  IF payload.kind \notin {"object", "array"} THEN Failed("ValueError")
  ELSE LET records == payload.items IN
       IF \E i \in 1..Len(records) : records[i].kind # "object"
       THEN Failed("AttributeError")
       ELSE LET normed   == [i \in 1..Len(records) |-> NormRecord(records[i].rec)]
                enriched == _apply_engineering_to_frame(DataFrame(normed))
            IN  IF enriched.err # "" THEN Failed(enriched.err)
                ELSE [err |-> "", normed |-> normed, enriched |-> enriched.df,
                      X |-> Assemble(enriched.df)]

(***************************************************************************)
(* Predictor                                                               *)
(***************************************************************************)
Round6Digits == 6
PScale == 10 ^ (Round6Digits + 1)

\* round(x, 6) on a value held in units of 1/PScale.  A tie is rounded to
\* even; the probabilities and thresholds explored hold no tie.
Round6(x) ==
  LET r == x % 10
      q == x - r
  IN  IF r < 5 THEN q
      ELSE IF r > 5 THEN q + 10
      ELSE IF (q \div 10) % 2 = 0 THEN q ELSE q + 10

Abs(n) == IF n < 0 THEN 0 - n ELSE n

\* The serialized pipeline is opaque: a deterministic function of the feature
\* row, here a table looked up by a digest of the row's cells.  A table entry
\* of -1 is an input the pipeline raises on.
CellCode(c) ==
  (CASE c.t = "nan" -> 0 [] c.t = "num" -> 1 [] c.t = "log1p" -> 2 [] OTHER -> 3)
    + 2 * Abs(c.v) + (IF c.v < 0 THEN 1 ELSE 0) + 3 * Abs(c.d) + c.e

RECURSIVE RowDigest(_, _, _)
RowDigest(row, names, j) ==
  IF names = <<>> THEN 0
  ELSE j * CellCode(row[Head(names)]) + RowDigest(row, Tail(names), j + 1)

PipelineProba(row, names) == clf.table[(RowDigest(row, names, 1) % Len(clf.table)) + 1]

\* clf.predict_proba(dfX)[:, 1]
predict_proba(dfX) ==
  IF Len(dfX.rows) = 0 /\ ~clf.emptyOk THEN [err |-> "ValueError", proba |-> <<>>]
  ELSE LET p == [i \in 1..Len(dfX.rows) |-> PipelineProba(dfX.rows[i], dfX.cols)]
       IN  IF \E i \in 1..Len(p) : p[i] < 0 THEN [err |-> "ValueError", proba |-> <<>>]
           ELSE [err |-> "", proba |-> p]

\* faulty variant: "BEST_THR if not threshold", which takes an override of 0 for none
EffectiveThr_Falsy(threshold) ==
  IF threshold.none \/ threshold.v = 0 THEN BEST_THR ELSE threshold.v

\* thr = BEST_THR if threshold is None else float(threshold)
EffectiveThr(threshold) == IF threshold.none THEN BEST_THR ELSE threshold.v

\* faulty variant: int(p > thr)
Decision_Strict(p, thr) == IF p > thr THEN 1 ELSE 0

\* int(p >= thr)
Decision(p, thr) == IF p >= thr THEN 1 ELSE 0

\* one element of the list _predict_df returns, with the row_id predict() adds
Prediction(p, thr, i) ==
  [proba_approved |-> Round6(p), threshold |-> Round6(thr),
   decision |-> Decision(p, thr), row_id |-> i]

\* faulty variant: enumerate(preds, 1)
RowId_FromOne(k) == k

\* for i, p in enumerate(preds): p["row_id"] = i
RowId(k) == k - 1

_predict_df(dfX, threshold) ==
  LET thr == EffectiveThr(threshold)
      pp  == predict_proba(dfX)
  IN  IF pp.err # "" THEN [err |-> pp.err, proba |-> <<>>, preds |-> <<>>]
      ELSE [err |-> "", proba |-> pp.proba,
            preds |-> [k \in 1..Len(pp.proba) |-> Prediction(pp.proba[k], thr, RowId(k))]]

(***************************************************************************)
(* predict(): the POST /predict handler                                    *)
(***************************************************************************)
\* request.args.get("threshold", default=None, type=float)
ArgsGetFloat(query) ==
  IF query.kind = "float" THEN [none |-> FALSE, v |-> query.v]
  ELSE [none |-> TRUE, v |-> 0]

NoResponse == [status |-> 0, ok |-> FALSE, n |-> 0, predictions |-> <<>>, error |-> ""]

\* faulty variant: "except ValueError", any other error leaves the handler
\* uncaught and the framework answers 500
ExceptClause_ValueErrorOnly(exc) ==
  IF exc = "ValueError"
  THEN [status |-> 400, ok |-> FALSE, n |-> 0, predictions |-> <<>>, error |-> exc]
  ELSE [status |-> 500, ok |-> FALSE, n |-> 0, predictions |-> <<>>, error |-> ""]

\* except Exception as e: return jsonify({"ok": False, "error": str(e)}), 400
ExceptClause(exc) ==
  [status |-> 400, ok |-> FALSE, n |-> 0, predictions |-> <<>>, error |-> exc]

\* return jsonify({"ok": True, "n": len(preds), "predictions": preds})
OkResponse(preds) ==
  [status |-> 200, ok |-> TRUE, n |-> Len(preds), predictions |-> preds, error |-> ""]

NoThr == [none |-> TRUE, v |-> 0]
NoFrame == Failed("")
Blank ==
  [pc |-> "idle", payload |-> [kind |-> "null", items |-> <<>>],
   query |-> [kind |-> "absent", v |-> 0], thr |-> NoThr, ff |-> NoFrame,
   proba |-> <<>>, calls |-> 0, exc |-> "", resp |-> NoResponse]

(***************************************************************************)
(* Request inputs explored, by family of inputs                            *)
(***************************************************************************)
F(key, opts) == [key |-> key, opts |-> opts]

RECURSIVE Build(_, _, _)
Build(fields, ch, i) ==
  IF i > Len(fields) THEN <<>>
  ELSE (IF ch[i].t = "absent" THEN <<>> ELSE << <<fields[i].key, ch[i]>> >>)
       \o Build(fields, ch, i + 1)

RecordsOf(fields) ==
  LET all == UNION { fields[i].opts : i \in 1..Len(fields) }
  IN  { Build(fields, ch, 1) :
          ch \in { c \in [1..Len(fields) -> all] : \A i \in 1..Len(fields) : c[i] \in fields[i].opts } }

Elem(rec) == [kind |-> "object", rec |-> rec]
NonObjectElem == [kind |-> "number", rec |-> <<>>]
Obj(rec) == [kind |-> "object", items |-> <<Elem(rec)>>]
Arr(elems) == [kind |-> "array", items |-> elems]
Scalar(kind) == [kind |-> kind, items |-> <<>>]

\* a JSON object, or a JSON array of at most MaxBatch objects
Batches(records) ==
  { Obj(rec) : rec \in records }
    \cup { Arr(s) : s \in SeqsUpTo({ Elem(rec) : rec \in records }, MaxBatch) }

QAbsent == [kind |-> "absent", v |-> 0]
QBad == [kind |-> "bad", v |-> 0]
QFloat(x) == [kind |-> "float", v |-> x]

RatioRecords ==
  RecordsOf(<< F(<<"CLAIMED_AMOUNT">>, {Absent, Num(-1), Num(0), Num(1), JNull, Str(1)}),
               F(<<"PATIENT_SHARE">>, {Absent, Num(0 - MaxAmt), Num(0), Num(MaxAmt)}) >>)
  \cup RecordsOf(<< F(<<"PATIENT_SHARE">>, {NumStr(2)}),
                    F(<<"CLAIMED_AMOUNT">>, {Absent, Num(1), JNull}) >>)
  \cup RecordsOf(<< F(<<"ACCEPTED_TAX">>, {Num(MaxAmt), Num(-1)}),
                    F(<<"BILLED_TAX">>, {Num(1), Num(0)}) >>)
  \cup RecordsOf(<< F(<<"SYSTEM_CLAIMED_AMOUNT">>, {Num(MaxAmt), Num(1)}),
                    F(<<"CLAIMED_AMOUNT">>, {Num(0), Num(1)}) >>)
  \cup RecordsOf(<< F(<<"PATIENT_SHARE_PCT">>, {Num(9)}),
                    F(<<"PATIENT_SHARE">>, {Absent, Num(1)}) >>)

AmountRecords ==
  RecordsOf(<< F(<<"GROSS_CLAIMED_AMOUNT">>,
                 {Absent, Num(0 - MaxAmt), Num(-1), Num(0), Num(1), Num(MaxAmt),
                  JNull, Str(1), NumStr(2)}),
               F(<<"GROSS_CLAIMED_AMOUNT_CLIP">>, {Absent, Num(9)}) >>)
  \cup RecordsOf(<< F(<<"CLAIMED_AMOUNT">>, {Num(-1), Num(0), Num(MaxAmt)}),
                    F(<<"BILLED_TAX">>, {Absent, Num(MaxAmt)}) >>)

FrameRecords ==
  RecordsOf(<< F(<<"SERVICE_DESC">>, {Absent, Str(1)}),
               F(<<" ", "Service", " ", "\t", "desc", " ">>, {Absent, Str(2)}),
               F(<<"srv_desc">>, {Absent, Str(3), JNull}),
               F(<<"claimed", " ", "Amount">>, {Absent, Num(MaxAmt)}) >>)
  \cup RecordsOf(<< F(<<"country">>, {Str(4)}),
                    F(<<"service_desc">>, {Absent, Str(1)}) >>)

PredictRecords ==
  RecordsOf(<< F(<<"CLAIMED_AMOUNT">>, {Absent, Num(0), Num(1), Num(2), Num(MaxAmt)}) >>)

GoodRecord == << <<<<"CLAIMED_AMOUNT">>, Num(MaxAmt)>>, <<<<"PATIENT_SHARE">>, Num(1)>> >>
OtherRecord == << <<<<"CLAIMED_AMOUNT">>, Num(1)>> >>
TextRecord == << <<<<"CLAIMED_AMOUNT">>, Str(1)>>, <<<<"PATIENT_SHARE">>, Num(1)>> >>

\* the payloads sent concurrently: well-formed records, a record whose amount
\* is text, bodies that are no object or array, a body that is no JSON, a list
\* with an element that is no object, the empty list
ApiPayloads ==
  { Obj(GoodRecord), Obj(OtherRecord), Obj(TextRecord),
    Scalar("string"), Scalar("number"), Scalar("boolean"), Scalar("null"),
    Scalar("invalid"), Arr(<<Elem(GoodRecord), NonObjectElem>>), Arr(<<>>) }

Payloads(fam) ==
  CASE fam = "ratio"   -> Batches(RatioRecords)
    [] fam = "amount"  -> Batches(AmountRecords)
    [] fam = "frame"   -> Batches(FrameRecords)
    [] fam = "predict" -> Batches(PredictRecords)
    [] OTHER           -> ApiPayloads

Half == PScale \div 2

Queries(fam) ==
  CASE fam = "predict" -> { QAbsent, QBad, QFloat(0), QFloat(Half - 4), QFloat(Half),
                            QFloat(9 * (PScale \div 10)) }
    [] fam \in {"ratio", "amount", "frame"} -> { QAbsent }
    [] OTHER           -> { QAbsent, QFloat(0), QFloat(9 * (PScale \div 10)) }

(***************************************************************************)
(* Artifact stores explored                                                *)
(***************************************************************************)
NoClip == [none |-> TRUE, map |-> <<>>]
ClipMap(m) == [none |-> FALSE, map |-> m]

Table1 == [table |-> <<Half - 4, Half + 4, 0, 9 * (PScale \div 10), PScale, 3, Half>>,
           emptyOk |-> TRUE]
Table2 == [table |-> <<Half + 4, 2 * (PScale \div 10), Half - 4, -1, Half, 0>>,
           emptyOk |-> FALSE]

St(bf, nc, cs, thr, c) == [bf |-> bf, nc |-> nc, cs |-> cs, thr |-> thr, clf |-> c]

RatioFeatures ==
  << "PATIENT_SHARE_PCT", "TAX_ACCEPT_RATIO", "SYSTEM_TO_CLAIMED_RATIO",
     "CLAIMED_AMOUNT", "PATIENT_SHARE", "CLAIMED_AMOUNT_LOG1P" >>
GrossFeatures ==
  << "GROSS_CLAIMED_AMOUNT", "GROSS_CLAIMED_AMOUNT_CLIP", "GROSS_CLAIMED_AMOUNT_LOG1P",
     "GROSS_CLAIMED_AMOUNT_NEG_FLAG", "GROSS_CLAIMED_AMOUNT_ZERO_FLAG",
     "CLAIMED_AMOUNT_CLIP", "BILLED_TAX_LOG1P" >>
DerivedOnly ==
  << "GROSS_CLAIMED_AMOUNT_LOG1P", "CLAIMED_AMOUNT_LOG1P", "CLAIMED_AMOUNT_CLIP",
     "CLAIMED_AMOUNT_ZERO_FLAG" >>

Stores(fam) ==
  CASE fam = "ratio" ->
         { St(RatioFeatures, <<"CLAIMED_AMOUNT", "PATIENT_SHARE">>, NoClip, Half, Table1),
           St(<<"PATIENT_SHARE_PCT", "COUNTRY">>, <<>>, ClipMap(<<>>), Half, Table1) }
    [] fam = "amount" ->
         { St(GrossFeatures, <<"CLAIMED_AMOUNT">>, NoClip, Half, Table1),
           St(GrossFeatures, <<>>, ClipMap(<< <<"GROSS_CLAIMED_AMOUNT", 1>> >>), Half, Table1),
           St(DerivedOnly, <<"GROSS_CLAIMED_AMOUNT", "CLAIMED_AMOUNT", "BILLED_TAX">>,
              ClipMap(<< <<"GROSS_CLAIMED_AMOUNT", 2>>, <<"CLAIMED_AMOUNT", 0>> >>),
              Half, Table1),
           St(DerivedOnly, <<"GROSS_CLAIMED_AMOUNT">>, ClipMap(<<>>), Half, Table1) }
    [] fam = "frame" ->
         { St(<<"SRV_DESC", "CLAIMED_AMOUNT", "CLAIMED_AMOUNT_LOG1P", "PATIENT_SHARE_PCT">>,
              <<"CLAIMED_AMOUNT">>, NoClip, Half, Table1),
           St(<<"COUNTRY", "SERVICE_DESC", "CLAIMED_AMOUNT_CLIP">>, <<"CLAIMED_AMOUNT">>,
              NoClip, Half, Table1),
           St(<<>>, <<>>, NoClip, Half, Table1) }
    [] fam = "predict" ->
         { St(<<"CLAIMED_AMOUNT", "CLAIMED_AMOUNT_LOG1P">>, <<>>, NoClip, thr, c) :
             thr \in {Half, Half - 4}, c \in {Table1, Table2} }
    [] OTHER ->
         { St(RatioFeatures, <<>>, NoClip, Half, Table1),
           St(RatioFeatures, <<>>, NoClip, Half - 4, Table2) }

Slots(fam) == IF fam = "concurrent" THEN MaxReq ELSE 1

(***************************************************************************)
(* State machine                                                           *)
(***************************************************************************)
InitFamily(fam) ==
  /\ family = fam
  /\ \E s \in Stores(fam) :
       /\ BASE_FEATURES = s.bf
       /\ NUM_COLS = s.nc
       /\ clip_stats = s.cs
       /\ BEST_THR = s.thr
       /\ clf = s.clf
  /\ reqs = [r \in 1..Slots(fam) |-> Blank]

\* the except clause of predict() ends the request
Caught(q, exc) == [q EXCEPT !.pc = "responded", !.exc = exc, !.resp = ExceptClause(exc)]

\* a POST /predict arrives at a free worker thread
Receive(r) ==
  /\ reqs[r].pc = "idle"
  /\ \E p \in Payloads(family), q \in Queries(family) :
       reqs' = [reqs EXCEPT ![r] = [Blank EXCEPT !.pc = "recv", !.payload = p, !.query = q]]
  /\ UNCHANGED <<store, family>>

\* predict(): get_json, args.get and X = _to_feature_frame(payload)
ToFeatureFrame(r) ==
  LET q == reqs[r] IN
  /\ q.pc = "recv"
  /\ reqs' = [reqs EXCEPT ![r] =
       IF q.payload.kind = "invalid" THEN Caught(q, "BadRequest")
       ELSE LET thr == ArgsGetFloat(q.query)
                ff  == _to_feature_frame(q.payload)
            IN  IF ff.err # "" THEN Caught([q EXCEPT !.thr = thr], ff.err)
                ELSE [q EXCEPT !.pc = "framed", !.thr = thr, !.ff = ff]]
  /\ UNCHANGED <<store, family>>

\* predict(): preds = _predict_df(X, threshold=thr), row ids, the response
PredictDfBody(r) ==
  LET q   == reqs[r]
      res == _predict_df(q.ff.X, q.thr)
  IN
  /\ q.pc = "framed"
  /\ reqs' = [reqs EXCEPT ![r] =
       IF res.err # "" THEN Caught([q EXCEPT !.calls = q.calls + 1], res.err)
       ELSE [q EXCEPT !.pc = "responded", !.calls = q.calls + 1, !.proba = res.proba,
                      !.resp = OkResponse(res.preds)]]

\* faulty variant: _predict_df assigns the call's threshold to the global BEST_THR
PredictDf_AssignsGlobalThr(r) ==
  /\ PredictDfBody(r)
  /\ BEST_THR' = EffectiveThr(reqs[r].thr)
  /\ UNCHANGED <<BASE_FEATURES, NUM_COLS, clip_stats, clf, family>>

PredictDf(r) == PredictDfBody(r) /\ UNCHANGED <<store, family>>

\* the response is sent and the request's objects are discarded
Finish(r) ==
  /\ reqs[r].pc = "responded"
  /\ reqs' = [reqs EXCEPT ![r] = Blank]
  /\ UNCHANGED <<store, family>>

Next ==
  \/ \E r \in DOMAIN reqs : Receive(r)
  \/ \E r \in DOMAIN reqs : ToFeatureFrame(r)
  \/ \E r \in DOMAIN reqs : PredictDf(r)
  \/ \E r \in DOMAIN reqs : Finish(r)

Init == InitFamily("concurrent")
Spec == Init /\ [][Next]_vars

InitRatio == InitFamily("ratio")
SpecRatio == InitRatio /\ [][Next]_vars
InitAmount == InitFamily("amount")
SpecAmount == InitAmount /\ [][Next]_vars
InitFrame == InitFamily("frame")
SpecFrame == InitFrame /\ [][Next]_vars
InitPredict == InitFamily("predict")
SpecPredict == InitPredict /\ [][Next]_vars

(***************************************************************************)
(* Properties                                                              *)
(***************************************************************************)
Handled(r) == reqs[r].pc \in {"framed", "responded"}
\* _to_feature_frame returned a frame for request r
HasFrame(r) == reqs[r].pc = "framed" \/ (reqs[r].pc = "responded" /\ reqs[r].calls > 0)
Succeeded(r) == reqs[r].pc = "responded" /\ reqs[r].resp.ok
ObjectsOnly(p) ==
  p.kind \in {"object", "array"} /\ \A i \in 1..Len(p.items) : p.items[i].kind = "object"

\* C1: the frame _to_feature_frame returns has exactly the columns of
\* base_features, in the declared order, one row per record; a base feature
\* the engineered frame lacks is missing in every row, a base feature it has
\* keeps the engineered value, and no other raw or engineered column remains.
C1_FeatureVectorShape ==
  \A r \in DOMAIN reqs : HasFrame(r) =>
    LET X  == reqs[r].ff.X
        en == reqs[r].ff.enriched
    IN  /\ X.cols = BASE_FEATURES
        /\ Len(X.rows) = Len(reqs[r].payload.items)
        /\ \A i \in 1..Len(X.rows) :
             /\ DOMAIN X.rows[i] = Range(BASE_FEATURES)
             /\ \A c \in Range(BASE_FEATURES) :
                  X.rows[i][c] = IF c \in Range(en.cols) THEN en.rows[i][c] ELSE Missing

\* a batch of two whose engineered frame lacks a base feature and holds a
\* column that is no base feature
C1_Witness ==
  \E r \in DOMAIN reqs :
    /\ HasFrame(r)
    /\ Len(reqs[r].ff.X.rows) = 2
    /\ Range(BASE_FEATURES) \ Range(reqs[r].ff.enriched.cols) # {}
    /\ Range(reqs[r].ff.enriched.cols) \ Range(BASE_FEATURES) # {}
    /\ Range(KNOWN_AMT_COLS) \cap Range(reqs[r].ff.enriched.cols) = {}

\* C10: SERVICE_DESC is renamed to SRV_DESC, value kept, exactly when
\* base_features has SRV_DESC and the key-normalised record has SERVICE_DESC
\* and no SRV_DESC; otherwise the key-normalised record is left as it is.
C10_AliasOnlyServiceDesc ==
  \A r \in DOMAIN reqs : HasFrame(r) =>
    \A i \in 1..Len(reqs[r].ff.normed) :
      LET n0 == NormKeys(reqs[r].payload.items[i].rec, <<>>)
          nr == reqs[r].ff.normed[i]
      IN  IF "SRV_DESC" \in Range(BASE_FEATURES) /\ "SERVICE_DESC" \in Keys(n0)
               /\ "SRV_DESC" \notin Keys(n0)
          THEN /\ Keys(nr) = (Keys(n0) \ {"SERVICE_DESC"}) \cup {"SRV_DESC"}
               /\ Get(nr, "SRV_DESC") = Get(n0, "SERVICE_DESC")
               /\ \A k \in Keys(n0) \ {"SERVICE_DESC"} : Get(nr, k) = Get(n0, k)
          ELSE nr = n0

C10_Witness ==
  \E r \in DOMAIN reqs :
    /\ HasFrame(r)
    /\ \E i \in 1..Len(reqs[r].ff.normed) :
         /\ "SERVICE_DESC" \in Keys(NormKeys(reqs[r].payload.items[i].rec, <<>>))
         /\ "SERVICE_DESC" \notin Keys(reqs[r].ff.normed[i])
         /\ "SRV_DESC" \in Keys(reqs[r].ff.normed[i])

\* C2: feature construction raises on no record whose amount columns are
\* absent, null or malformed strings: every request whose payload is an
\* object or a list of objects reaches the predictor.
C2_FeatureConstructionNeverFails ==
  \A r \in DOMAIN reqs :
    (Handled(r) /\ ObjectsOnly(reqs[r].payload)) => HasFrame(r)

RatioRange == [PATIENT_SHARE_PCT |-> 5, TAX_ACCEPT_RATIO |-> 2, SYSTEM_TO_CLAIMED_RATIO |-> 5]

InRange(c, hi) == IsNum(c) /\ Cmp(c, 0) >= 0 /\ Cmp(c, hi) <= 0

\* C3: in every feature vector the three ratio columns hold a missing value
\* or a value within the declared range.
C3_RatiosWithinRange ==
  \A r \in DOMAIN reqs : HasFrame(r) =>
    \A c \in DOMAIN RatioRange \cap Range(BASE_FEATURES) :
      \A i \in 1..Len(reqs[r].ff.X.rows) :
        LET x == reqs[r].ff.X.rows[i][c]
        IN  x = Missing \/ InRange(x, RatioRange[c])

\* the part of C3 about derived values: when both source columns are in the
\* frame, the ratio column holds only missing or in-range values
DerivedRatiosWithinRange ==
  \A r \in DOMAIN reqs : HasFrame(r) =>
    LET en == reqs[r].ff.enriched IN
    /\ (HasCol(en, "PATIENT_SHARE") /\ HasCol(en, "CLAIMED_AMOUNT")) =>
         \A i \in 1..Len(en.rows) :
           en.rows[i]["PATIENT_SHARE_PCT"] = Missing \/ InRange(en.rows[i]["PATIENT_SHARE_PCT"], 5)
    /\ (HasCol(en, "ACCEPTED_TAX") /\ HasCol(en, "BILLED_TAX")) =>
         \A i \in 1..Len(en.rows) :
           en.rows[i]["TAX_ACCEPT_RATIO"] = Missing \/ InRange(en.rows[i]["TAX_ACCEPT_RATIO"], 2)
    /\ (HasCol(en, "SYSTEM_CLAIMED_AMOUNT") /\ HasCol(en, "CLAIMED_AMOUNT")) =>
         \A i \in 1..Len(en.rows) :
           en.rows[i]["SYSTEM_TO_CLAIMED_RATIO"] = Missing
             \/ InRange(en.rows[i]["SYSTEM_TO_CLAIMED_RATIO"], 5)

Eligible(c) == c \in Range(BASE_FEATURES) \/ c \in Range(NUM_COLS)
Suffixes == {"_CLIP", "_LOG1P", "_NEG_FLAG", "_ZERO_FLAG"}

\* the numeric value of a raw cell: a number, a numeric string parsed, else missing
NumericValue(cell) ==
  IF cell.t \in {"num", "numstr"} THEN Num(cell.v) ELSE Missing

Min(a, b) == IF a < b THEN a ELSE b
Max(a, b) == IF a > b THEN a ELSE b
LogArg(cell) == [t |-> "num", v |-> cell.v, d |-> cell.d, e |-> cell.e]

RequestedThr(q) == IF q.query.kind = "float" THEN q.query.v ELSE BEST_THR

\* C4 as stated: decision = 1 exactly when the reported (rounded) probability
\* is >= the reported (rounded) threshold.
C4_DecisionMatchesReported ==
  \A r \in DOMAIN reqs : Succeeded(r) =>
    \A k \in 1..Len(reqs[r].resp.predictions) :
      LET p == reqs[r].resp.predictions[k]
      IN  (p.decision = 1) <=> (p.proba_approved >= p.threshold)

\* C4 amended: decision is 0 or 1; it is 1 when the reported probability is
\* above the reported threshold, 0 when it is below, and when the two reported
\* values are equal it is 1 exactly when the unrounded probability is >= the
\* unrounded threshold.
C4_DecisionMatchesReportedUnlessEqual ==
  \A r \in DOMAIN reqs : Succeeded(r) =>
    \A k \in 1..Len(reqs[r].resp.predictions) :
      LET p == reqs[r].resp.predictions[k]
      IN  /\ p.decision \in {0, 1}
          /\ p.proba_approved > p.threshold => p.decision = 1
          /\ p.proba_approved < p.threshold => p.decision = 0
          /\ p.proba_approved = p.threshold =>
               ((p.decision = 1) <=> (reqs[r].proba[k] >= RequestedThr(reqs[r])))

\* reported probability and threshold equal, the decision 0
C4_Witness ==
  \E r \in DOMAIN reqs :
    /\ Succeeded(r)
    /\ \E k \in 1..Len(reqs[r].resp.predictions) :
         LET p == reqs[r].resp.predictions[k]
         IN  p.proba_approved = p.threshold /\ p.decision = 0

DerivedNames ==
  DOMAIN RatioRange \cup { KNOWN_AMT_COLS[j] \o sfx : j \in 1..Len(KNOWN_AMT_COLS), sfx \in Suffixes }

\* C7: a successful response to N records has n = N and N predictions with
\* row_id 0..N-1, the k-th computed from the k-th row of the feature frame,
\* which holds the k-th record's values; a single object gives one prediction
\* with row_id 0; predict_proba is called once for the batch.
C7_RowIdsFollowInputOrder ==
  \A r \in DOMAIN reqs : Succeeded(r) =>
    LET q == reqs[r]
        N == Len(q.payload.items)
    IN  /\ q.resp.n = N
        /\ Len(q.resp.predictions) = N
        /\ q.payload.kind = "object" => N = 1
        /\ q.calls = 1
        /\ \A k \in 1..N :
             /\ q.resp.predictions[k].row_id = k - 1
             /\ q.resp.predictions[k].proba_approved
                  = Round6(PipelineProba(q.ff.X.rows[k], BASE_FEATURES))
             /\ \A c \in (Range(BASE_FEATURES) \cap Keys(q.ff.normed[k])) \ DerivedNames :
                  q.ff.X.rows[k][c] = FromJson(Get(q.ff.normed[k], c))

\* a batch of two records with different probabilities
C7_Witness ==
  \E r \in DOMAIN reqs :
    /\ Succeeded(r)
    /\ reqs[r].resp.n = 2
    /\ reqs[r].resp.predictions[1].row_id = 0
    /\ reqs[r].resp.predictions[2].row_id = 1
    /\ reqs[r].resp.predictions[1].proba_approved # reqs[r].resp.predictions[2].proba_approved

\* C9: decision = 1 iff the unrounded pipeline probability is >= the
\* effective threshold: the override when one is supplied (0 included), the
\* default otherwise; the rounding touches only the two reported values.
C9_DecisionUsesUnroundedValues ==
  \A r \in DOMAIN reqs : Succeeded(r) =>
    LET q == reqs[r] IN
    \A k \in 1..Len(q.resp.predictions) :
      LET p   == q.resp.predictions[k]
          raw == PipelineProba(q.ff.X.rows[k], BASE_FEATURES)
      IN  /\ (p.decision = 1) <=> (raw >= RequestedThr(q))
          /\ (p.decision = 0) <=> (raw < RequestedThr(q))
          /\ p.proba_approved = Round6(raw)
          /\ p.threshold = Round6(RequestedThr(q))

\* an override of 0 approves a row the default threshold would reject
C9_Witness ==
  \E r \in DOMAIN reqs :
    /\ Succeeded(r)
    /\ reqs[r].query = QFloat(0)
    /\ \E k \in 1..Len(reqs[r].resp.predictions) :
         /\ reqs[r].resp.predictions[k].decision = 1
         /\ reqs[r].proba[k] < BEST_THR

C5_State ==
  /\ \A r \in DOMAIN reqs : Succeeded(r) =>
       \A k \in 1..Len(reqs[r].resp.predictions) :
         /\ reqs[r].resp.predictions[k].threshold = Round6(RequestedThr(reqs[r]))
         /\ reqs[r].resp.predictions[k].decision
              = (IF reqs[r].proba[k] >= RequestedThr(reqs[r]) THEN 1 ELSE 0)
  /\ \A r1, r2 \in DOMAIN reqs :
       (Succeeded(r1) /\ Succeeded(r2) /\ reqs[r1].payload = reqs[r2].payload) =>
         /\ Len(reqs[r1].resp.predictions) = Len(reqs[r2].resp.predictions)
         /\ \A k \in 1..Len(reqs[r1].resp.predictions) :
              reqs[r1].resp.predictions[k].proba_approved
                = reqs[r2].resp.predictions[k].proba_approved

\* C5: across every interleaving of requests with and without ?threshold=,
\* no step changes the artifact store; a request without an override is
\* decided and reported against the default threshold, one with an override
\* against its own value; requests with the same payload report the same
\* probabilities whatever their thresholds.
C5_OverrideIsPerCall == [] C5_State /\ [][store' = store]_vars

\* two requests with the same payload in flight, one with an override and one
\* without, answered with different decisions and the same probability
C5_Witness ==
  \E r1, r2 \in DOMAIN reqs :
    /\ Succeeded(r1) /\ Succeeded(r2)
    /\ reqs[r1].payload = reqs[r2].payload
    /\ reqs[r1].query.kind = "float" /\ reqs[r2].query.kind = "absent"
    /\ Len(reqs[r1].resp.predictions) = 1
    /\ reqs[r1].resp.predictions[1].decision # reqs[r2].resp.predictions[1].decision
    /\ reqs[r1].resp.predictions[1].proba_approved = reqs[r2].resp.predictions[1].proba_approved

C6_State ==
  \A r \in DOMAIN reqs :
    LET q == reqs[r] IN
    /\ (Handled(r) /\ ~ObjectsOnly(q.payload)) => (q.pc = "responded" /\ q.exc # "")
    /\ (Handled(r) /\ q.payload.kind \notin {"object", "array"}) =>
         q.exc \in {"ValueError", "BadRequest"}
    /\ q.pc = "responded" =>
         /\ q.resp.status \in {200, 400}
         /\ (q.exc # "") <=> (q.resp.status = 400)
         /\ q.resp.status = 400 =>
              /\ q.resp.ok = FALSE
              /\ q.resp.predictions = <<>>
              /\ q.resp.error = q.exc
         /\ q.resp.status = 200 => q.resp.ok = TRUE

\* a step in which a request raises
RaisesIn(r) == reqs[r].exc = "" /\ reqs'[r].exc # ""

\* C6: a payload that is neither an object nor an array, and every error
\* raised while handling a request, ends in the {ok: false, error} response
\* with status 400 and no predictions; the step that raises changes neither
\* the artifact store nor any other request.
C6_ErrorsEndInStructured400 ==
  /\ [] C6_State
  /\ [][\A r \in DOMAIN reqs : RaisesIn(r) =>
          /\ store' = store
          /\ reqs'[r].pc = "responded"
          /\ reqs'[r].resp.status = 400
          /\ \A o \in DOMAIN reqs \ {r} : reqs'[o] = reqs[o]]_vars

\* a bare string answered with 400 while another request, whose pipeline
\* call raised, is answered with 400 too
C6_Witness ==
  \E r1, r2 \in DOMAIN reqs :
    /\ reqs[r1].pc = "responded"
    /\ reqs[r1].payload.kind = "string"
    /\ reqs[r1].exc = "ValueError"
    /\ reqs[r1].resp.status = 400
    /\ reqs[r2].pc = "responded"
    /\ reqs[r2].calls = 1
    /\ reqs[r2].exc = "ValueError"
    /\ reqs[r2].resp.status = 400

====
